---- MODULE Spec2Model ----
(***************************************************************************)
(* The check-cats ingestion pipeline of cat-searcher: paginated fetch,     *)
(* record extraction, eligibility filter, novelty check against the Redis  *)
(* set, Telegram notification and commit.                                  *)
(*                                                                         *)
(* One action is one synchronous segment of the handler: the code that     *)
(* runs between the resumption of one await and the suspension at the      *)
(* next (JavaScript runs such a segment without interleaving).  The        *)
(* answer of the awaited call (a page, an HTTP error, a store error, a     *)
(* Telegram failure) is the input of the action.                           *)
(***************************************************************************)
EXTENDS Integers, Sequences, FiniteSets, TLC

(* ------------------------------ bounds -------------------------------- *)

\* record ids that the listing can show: 1..MaxId
MaxId == 3
\* the largest number of pages the declared total can ask for
MaxPages == 3
\* Per-run notification cap.  The source sets 30; the model keeps the role
\* of the constant and scales its value, so that a list of new records that
\* is longer than the cap is reachable with MaxId ids.
MAX_CATS_TO_NOTIFY == 2
\* the largest total a listing page declares to the pagination planner
MaxTotal == 64

(* ------------------------- program constants -------------------------- *)

CATS_PER_PAGE == 16
MIN_AGE_MONTHS == 6
\* 90 * 24 * 60 * 60, the argument of kv.expire
TTL_SECONDS == 90 * 24 * 60 * 60
\* the key has no expiration (or does not exist)
NoTTL == 0 - 1

Runs == {1, 2}
Ids == 1..MaxId
None == <<"undefined">>

(* ------------------------------ helpers ------------------------------- *)

Min(a, b) == IF a < b THEN a ELSE b

\* x.slice(0, n)
Slice(s, n) == SubSeq(s, 1, Min(Len(s), n))

\* self.findIndex(c => c.id === id), 1-based; 0 stands for -1
RECURSIVE FindIndexFrom(_, _, _)
FindIndexFrom(s, k, id) ==
  IF k > Len(s) THEN 0
  ELSE IF s[k].id = id THEN k
  ELSE FindIndexFrom(s, k + 1, id)

FindIndex(s, id) == FindIndexFrom(s, 1, id)

\* cats.map(cat => cat.id)
IdsOf(s) == [k \in 1..Len(s) |-> s[k].id]

Last(s) == s[Len(s)]
Range(s) == {s[k] : k \in 1..Len(s)}

\* string.includes(word), a string being the sequence of its words
Includes(msg, word) == \E k \in 1..Len(msg) : msg[k] = word

\* the text holds the phrase: consecutive tokens equal to it
HasPhrase(s, phrase) ==
  \E k \in 1..Len(s) :
    /\ k + Len(phrase) - 1 <= Len(s)
    /\ SubSeq(s, k, k + Len(phrase) - 1) = phrase

(* --------------------------- the listing ------------------------------ *)

(***************************************************************************)
(* A text is the sequence of its tokens: words in lower case (every        *)
(* pattern of the source is case-insensitive), white space " ",            *)
(* punctuation.  An age text is the sequence of its <number><unit> parts.  *)
(***************************************************************************)
PlainName == <<"boris">>
DuoName == <<"boris", " ", "(", "en", " ", "bella", ")">>
AmpName == <<"flower", " ", "(", "&", " ", "milou", ")">>
TightAmpName == <<"felix", " ", "(", "&", "max", ")">>
ParenDuoName == <<"chili", " ", "(", "duo", " ", "taco", ")">>
KeywordName == <<"edward", " ", "duoadoptie">>

Age(n, unit) == <<[n |-> n, unit |-> unit]>>

\* An anchor a[href*="/katten/<id>"] of a page with what its card shows:
\* the name, the age text, and whether the age text stands in an element
\* whose class holds "age" or "leeftijd" (else it is part of the card's text
\* only).  The description is the text of the card's first p, .description
\* or .text element or, without one, the rest of the card's text.
Card(id, name, age, ageClass) ==
  [id |-> id, name |-> name, age |-> age, ageClass |-> ageClass,
   description |-> <<>>]

\* the card with a description
Described(a, text) == [a EXCEPT !.description = text]

Single(id) == Card(id, PlainName, Age(MIN_AGE_MONTHS, "maanden"), TRUE)
Young1 == Card(1, PlainName, Age(MIN_AGE_MONTHS - 1, "maanden"), TRUE)
Duo2 == Card(2, DuoName, Age(MIN_AGE_MONTHS, "maanden"), TRUE)

\* every id as a single record of the minimum age, the first id also one
\* month too young, the second id also as one of a pair
Anchors == {Single(id) : id \in Ids} \cup {Young1, Duo2}

\* The anchors of one page in document order: none, one, or the first id
\* twice (of the minimum age, then too young).
AnchorLists ==
  {<<>>} \cup {<<a>> : a \in Anchors} \cup {<<Single(1), Young1>>}

\* the totals a page can declare: none, and one for every number of pages
\* from 2 to MaxPages
Totals == {0} \cup {p * CATS_PER_PAGE + 1 : p \in 1..(MaxPages - 1)}

\* A page of the listing, as far as the pipeline reads it: the counter
\* element and the anchors in document order.
Pages == [total : Totals, anchors : AnchorLists]

(* ---------------------------- extraction ------------------------------ *)

\* age.match(/(\d+)\s*jaar/i), age.match(/(\d+)\s*maand/i): the first part
\* whose unit begins with the word; 0 when there is no match
RECURSIVE FirstPart(_, _, _)
FirstPart(age, k, units) ==
  IF k > Len(age) THEN 0
  ELSE IF age[k].unit \in units THEN k
  ELSE FirstPart(age, k + 1, units)

JaarUnits == {"jaar"}
MaandUnits == {"maand", "maanden"}

ParseAgeInMonths(age) ==
  LET yearMatch == FirstPart(age, 1, JaarUnits)
      monthMatch == FirstPart(age, 1, MaandUnits)
  IN  IF age = <<>> THEN 0
      ELSE IF yearMatch # 0
        THEN age[yearMatch].n * 12
               + (IF monthMatch # 0 THEN age[monthMatch].n ELSE 0)
      ELSE IF monthMatch # 0 THEN age[monthMatch].n
      ELSE 0

\* the units /(\d+)\s*(jaar|maand|month|year)/i finds
ScanUnits == {"jaar", "maand", "maanden", "month", "months", "year", "years"}

\* text.match(/(\d+)\s*(jaar|maand|month|year)/i): ageMatch[0] is the first
\* <number><unit> of the card's text, "" when there is none
ScanAge(text) ==
  LET k == FirstPart(text, 1, ScanUnits)
  IN  IF k = 0 THEN <<>> ELSE <<text[k]>>

\* lines 218-232: the age text of the card
AgeOf(a) == IF a.ageClass THEN a.age ELSE ScanAge(a.age)

CatOf(a) ==
  [id |-> a.id, name |-> a.name, age |-> AgeOf(a),
   ageInMonths |-> ParseAgeInMonths(AgeOf(a)), description |-> a.description]

\* the .each callback over the anchors, skipping an id already collected
RECURSIVE ExtractFrom(_, _, _)
ExtractFrom(anchors, k, cats) ==
  IF k > Len(anchors) THEN cats
  ELSE IF FindIndex(cats, anchors[k].id) # 0
    THEN ExtractFrom(anchors, k + 1, cats)
  ELSE ExtractFrom(anchors, k + 1, Append(cats, CatOf(anchors[k])))

\* cats.filter((cat, index, self) => self.findIndex(c => c.id === cat.id) === index)
RECURSIVE UniqueFrom(_, _)
UniqueFrom(s, k) ==
  IF k > Len(s) THEN <<>>
  ELSE (IF FindIndex(s, s[k].id) = k THEN <<s[k]>> ELSE <<>>)
         \o UniqueFrom(s, k + 1)

\* a filter that keeps the last record of every id
UniqueByIdLast(s) ==
  LET keep == {k \in 1..Len(s) : \A m \in (k + 1)..Len(s) : s[m].id # s[k].id}
  IN  [n \in 1..Cardinality(keep) |->
         s[CHOOSE k \in keep : Cardinality({m \in keep : m <= k}) = n]]

UniqueById(s) == UniqueFrom(s, 1)

extractCats(html) == UniqueById(ExtractFrom(html.anchors, 1, <<>>))

\* a division that drops the remainder
CeilTruncates(a, b) == a \div b

\* Math.ceil(a / b) for a >= 0, b > 0
Ceil(a, b) == (a + b - 1) \div b

extractTotalCats(html) ==
  [totalCats |-> html.total,
   totalPages |-> IF html.total > 0 THEN Ceil(html.total, CATS_PER_PAGE) ELSE 1]

(* ------------------------- eligibility filter ------------------------- *)

duoPatterns ==
  {<<"duoadoptie">>, <<"duoadoptif">>,
   <<"duo", " ", "adoptie">>, <<"duo", " ", "adoptif">>,
   <<"duo", "-", "adoptie">>, <<"duo", "-", "adoptif">>,
   <<"alleen", " ", "samen">>, <<"samen", " ", "geadopteerd">>,
   <<"moeten", " ", "samen">>, <<"koppel">>}

\* /\(\s*(&|en)\s+[^)]+\)/ on the name: "(", optional white space, "&" or
\* "en", white space, then at least one token other than ")", then ")"
ParenAnd(name) ==
  \E k \in 1..Len(name) : \E m \in (k + 1)..Len(name) : \E e \in (m + 3)..Len(name) :
    /\ name[k] = "("
    /\ \A x \in (k + 1)..(m - 1) : name[x] = " "
    /\ name[m] \in {"&", "en"}
    /\ name[m + 1] = " "
    /\ \A x \in (m + 2)..(e - 1) : name[x] # ")"
    /\ name[e] = ")"

\* the tokens that are neither a word nor white space
Punctuation == {"(", ")", "&", "-", ".", ","}

\* relationshipPatterns: /\b(broer|zus)[\s\w]*samen\b/,
\* /\bsamen met (zijn|haar) (broer|zus)\b/ and
\* /\b(broer|zus)\b.*\b(adopteren|adoptie)\b/
relationshipPatterns(s) ==
  \/ \E k \in 1..Len(s) : \E m \in (k + 1)..Len(s) :
       /\ s[k] \in {"broer", "zus"}
       /\ \A x \in (k + 1)..(m - 1) : s[x] \notin Punctuation
       /\ s[m] = "samen"
  \/ \E p \in {"zijn", "haar"} : \E q \in {"broer", "zus"} :
       HasPhrase(s, <<"samen", " ", "met", " ", p, " ", q>>)
  \/ \E k \in 1..Len(s) : \E m \in (k + 1)..Len(s) :
       s[k] \in {"broer", "zus"} /\ s[m] \in {"adopteren", "adoptie"}

\* /\([^)]*duo[^)]*\)/ on the name: parentheses around a word that holds "duo"
ParenDuo(name) ==
  \E k \in 1..Len(name) : \E e \in (k + 1)..Len(name) :
    /\ name[k] = "(" /\ name[e] = ")"
    /\ \A x \in (k + 1)..(e - 1) : name[x] # ")"
    /\ \E x \in (k + 1)..(e - 1) : name[x] \in {"duo", "duoadoptie", "duoadoptif"}

isDuoAdoption(cat) ==
  LET nameAndDesc == cat.name \o <<" ">> \o cat.description
  IN  \/ \E p \in duoPatterns : HasPhrase(nameAndDesc, p)
      \/ relationshipPatterns(nameAndDesc)
      \/ ParenDuo(cat.name)
      \/ ParenAnd(cat.name)

\* a filter that lets a record of unknown age pass
AgeFilterFailOpen(s) ==
  SelectSeq(s, LAMBDA cat : cat.ageInMonths = 0 \/ cat.ageInMonths >= MIN_AGE_MONTHS)

\* uniqueCats.filter(cat => cat.ageInMonths >= MIN_AGE_MONTHS)
AgeFilter(s) == SelectSeq(s, LAMBDA cat : cat.ageInMonths >= MIN_AGE_MONTHS)

DuoFilter(s) == SelectSeq(s, LAMBDA cat : ~isDuoAdoption(cat))

\* a handler that never applies the duo filter
EligibleByAgeOnly(allCats, filterDuo) == AgeFilter(UniqueById(allCats))

\* lines 87-103 of the handler: unique by id, age filter, duo filter
Eligible(allCats, filterDuo) ==
  LET uniqueCats == UniqueById(allCats)
      cats == AgeFilter(uniqueCats)
  IN  IF filterDuo THEN DuoFilter(cats) ELSE cats

(* ------------------------- errors and answers ------------------------- *)

\* An Error object, as far as the code reads it: its name and its message.
AbortError == [name |-> "AbortError", message |-> <<"This", "operation", "was", "aborted">>]
\* fetch() rejects on a network failure
NetworkError == [name |-> "TypeError", message |-> <<"fetch", "failed">>]
\* response.text() rejects when the connection breaks while the body is read
BodyError == [name |-> "TypeError", message |-> <<"terminated">>]
\* new Error(`HTTP ${response.status}: ${response.statusText}`)
HttpError(status, statusText) ==
  [name |-> "Error", message |-> <<"HTTP", status, ":">> \o statusText]
\* no error
NoError == [name |-> "", message |-> <<>>]
\* a rejected kv call
StoreError == [name |-> "Error", message |-> <<"store", "unavailable">>]

StatusTexts == {<<"Service", "Unavailable">>, <<"Backend", "fetch", "failed">>}

\* What one attempt of fetchListing meets: fetch() rejects, the response is
\* not OK, the body cannot be read, or the body is read.
FetchOutcomes ==
  {[kind |-> "reject", error |-> e] : e \in {AbortError, NetworkError}}
    \cup {[kind |-> "status", status |-> "503", statusText |-> t] : t \in StatusTexts}
    \cup {[kind |-> "body", error |-> BodyError]}
    \cup {[kind |-> "html", html |-> h] : h \in Pages}

\* the error the try block of fetchListing throws on this outcome
ThrownBy(out) ==
  IF out.kind = "status" THEN HttpError(out.status, out.statusText) ELSE out.error

\* retryCount > 0 && error instanceof Error &&
\*   (error.name === "AbortError" || error.message.includes("fetch"))
ShouldRetry(retryCount, error) ==
  /\ retryCount > 0
  /\ \/ error.name = "AbortError"
     \/ Includes(error.message, "fetch")

SendOutcomes == {"ok", "notOk", "throw"}

(* --------------------------- configuration ---------------------------- *)

Secret == <<"s3cret">>
Wrong == <<"wrong">>

\* a value of process.env or of the request is truthy
Truthy(v) == v # None /\ v # <<>>

Configs ==
  {[TELEGRAM_BOT_TOKEN |-> <<"token">>, TELEGRAM_CHAT_ID |-> <<"42">>,
    CRON_SECRET |-> Secret, FILTER_DUO_ADOPTIONS |-> None]}
  \cup
  {[TELEGRAM_BOT_TOKEN |-> t, TELEGRAM_CHAT_ID |-> c,
    CRON_SECRET |-> k, FILTER_DUO_ADOPTIONS |-> None] :
      <<t, c, k>> \in {<<None, <<"42">>, Secret>>, <<<<"token">>, None, Secret>>,
                       <<<<"token">>, <<"42">>, None>>}}

\* process.env.FILTER_DUO_ADOPTIONS !== "false"
\* a toggle that is off unless it is set to "true"
FilterDuoOptIn(cfg) == cfg.FILTER_DUO_ADOPTIONS = <<"true">>

FilterDuo(cfg) == cfg.FILTER_DUO_ADOPTIONS # <<"false">>

Requests ==
  [authorization : {None, <<"Bearer ", "s3cret">>, <<"Bearer ", "wrong">>},
   secret : {None, Secret, Wrong}]

\* header.replace("Bearer ", ""): the first occurrence is removed
RECURSIVE RemoveFirst(_, _)
RemoveFirst(s, tok) ==
  IF s = <<>> THEN <<>>
  ELSE IF Head(s) = tok THEN Tail(s)
  ELSE <<Head(s)>> \o RemoveFirst(Tail(s), tok)

\* req.headers.authorization?.replace("Bearer ", "") || req.query.secret
ProvidedSecret(req) ==
  LET h == IF req.authorization = None THEN None
           ELSE RemoveFirst(req.authorization, "Bearer ")
  IN  IF Truthy(h) THEN h ELSE req.secret

\* req is not read after line 42: the model forgets it when the first fetch
\* returns
NoRequest == [authorization |-> None, secret |-> None]

(* ------------------------------- state -------------------------------- *)

VARIABLES
  config,   \* the environment variables read at module load
  seen,     \* the members of the Redis set seen:cats:<hash>
  ttl,      \* the time to live of that key in seconds, NoTTL when it has none
  expired,  \* history: the key has expired at some time
  run,      \* per invocation of the handler: its position and its locals
  chats,    \* the members of the Redis set telegram:chat_ids
  hook      \* the webhook handler: its position and its locals

vars == <<config, seen, ttl, expired, run, chats, hook>>

IdleRun ==
  [pc |-> "idle", page |-> 0, retryCount |-> 0, tries |-> 0,
   totalCats |-> 0, totalPages |-> 0,
   allCats |-> <<>>, cats |-> <<>>, newCats |-> <<>>, i |-> 0, j |-> 0,
   result |-> [status |-> 0],   \* status 0: no response was sent
   \* history of the invocation
   request |-> NoRequest, \* req, up to the return of the first fetch
   pagesRead |-> <<>>,    \* the pages as they arrived, where a specification
                          \* records them
   extracted |-> "unknown", \* after the pages: "none" or "some" records
   eligibleIds |-> {},    \* the ids of cats
   newIds |-> {},         \* the ids of newCats
   thrown |-> NoError,    \* the error of the last failed attempt of fetchListing
   failedPage |-> 0,      \* the page whose fetchListing call threw
   probes |-> <<>>,       \* the ids given to kv.sismember
   checked |-> FALSE,     \* getNewCats has returned
   attempts |-> <<>>,     \* the ids of the records a message was posted for
   dest |-> <<>>,         \* the chat_id of each of these messages
   delivered |-> {},      \* the ids whose message Telegram accepted
   summary |-> "none",    \* the summary message: "none", "sent" or "failed"
   overflow |-> 0,        \* the count that the summary message reports
   persisted |-> <<>>,    \* the ids given to persistCatIds
   writes |-> <<>>,       \* the store writes that succeeded
   storeFailed |-> "none", \* the store command that threw: "sismember",
                          \* "sadd" or "expire"
   trimmed |-> FALSE]

(* The webhook (src/unnamed/part_001).  A chat id is the string of its number. *)
Chats == {<<"7">>, <<"8">>}

\* new Date().toISOString() takes the values 1..MaxStamp
MaxStamp == 2

\* JSON.stringify({id, name, addedAt}); the name of a chat does not change
ChatData(chatId, stamp) == [id |-> chatId, name |-> "private", addedAt |-> stamp]

NoUpdate == [kind |-> "none"]
NoChatData == [id |-> <<>>]
NoReply == [chat |-> <<>>, subscribed |-> FALSE]

IdleHook ==
  [pc |-> "idle", update |-> NoUpdate,
   cachedBotId |-> FALSE,     \* getBotId has stored the id of the bot
   clock |-> 1,               \* the time of the last reading of the clock
   chatData |-> NoChatData,   \* the member removeChatId has found
   status |-> 0,              \* the status of the last response
   \* history
   reply |-> NoReply,         \* the last answer to a /status: the chat and
                              \* what it was told
   last |-> [c \in Chats |-> "none"]]
                              \* per chat, what the last update that was
                              \* answered 200 did: "added" or "removed"

Init ==
  /\ config \in Configs
  /\ seen \in {1..k : k \in 0..MaxId}
  /\ ttl = IF seen = {} THEN NoTTL ELSE TTL_SECONDS
  /\ chats = {}
  /\ hook = IdleHook
  /\ expired = FALSE
  /\ run = [r \in Runs |-> IdleRun]

Finished(r) == run[r].pc \in {"done", "crashed"}
Active(r) == run[r].pc \notin {"idle", "done", "crashed"}

\* the run record with the fields of ch replaced
Set(r, ch) == run' = [run EXCEPT ![r] = ch @@ @]

\* res.status(status).json(body)
Respond(status, body) ==
  [pc |-> "done", result |-> [status |-> status, body |-> body]]

\* a catch block that answers as if the invocation had succeeded
CaughtSwallows(error) == Respond(200, [ok |-> TRUE])

\* the catch block of the handler
Caught(error) ==
  Respond(500, [error |-> "Internal server error", message |-> error.message])

(* ----------------------------- the handler ---------------------------- *)

Success(rec) ==
  Respond(200, [ok |-> TRUE, totalCats |-> rec.totalCats,
                totalPages |-> rec.totalPages, found |-> Len(rec.cats),
                new |-> Len(rec.newCats), timestamp |-> "now"])

\* an empty listing answered as an error
WarningAsError ==
  Respond(500, [error |-> "Internal server error", message |-> <<"No", "cats", "found">>])

Warning ==
  Respond(200, [ok |-> TRUE, found |-> 0, new |-> 0, warning |-> "No cats found"])

\* fetchListing(url) is called with retryCount = 1 and issues its fetch()
CallFetchListing(page) ==
  [pc |-> "fetch", page |-> page, retryCount |-> 1, tries |-> 1, thrown |-> NoError]

\* a handler that warns only when the pages held no record at all
AfterPagesWarnsOnNoRecord(allCats) ==
  LET cats == Eligible(allCats, FilterDuo(config))
  IN  [allCats |-> <<>>, cats |-> cats, eligibleIds |-> Range(IdsOf(cats)),
       extracted |-> IF Len(allCats) = 0 THEN "none" ELSE "some"] @@
      (IF Len(allCats) = 0 THEN Warning
       ELSE IF Len(cats) = 0 THEN Respond(200, [ok |-> TRUE, found |-> 0, new |-> 0])
       ELSE [pc |-> "probe", i |-> 1])

\* Lines 87-118: after the last page, up to the first kv.sismember.
AfterPages(allCats) ==
  LET cats == Eligible(allCats, FilterDuo(config))
  IN  [allCats |-> <<>>, cats |-> cats, eligibleIds |-> Range(IdsOf(cats)),
       extracted |-> IF Len(allCats) = 0 THEN "none" ELSE "some"] @@
      (IF Len(cats) = 0 THEN Warning ELSE [pc |-> "probe", i |-> 1])

\* What is kept about an invocation that has ended once a later one starts,
\* and about one that was stopped: how it ended and, when it answered OK or
\* was past its novelty check and had not called persistCatIds, the ids of
\* its eligible and of its new records.
Trim(rec) ==
  [pc |-> rec.pc, result |-> [status |-> rec.result.status], trimmed |-> TRUE]
    @@ (IF rec.result.status = 200 \/ (rec.checked /\ rec.persisted = <<>>)
          THEN [eligibleIds |-> rec.eligibleIds, newIds |-> rec.newIds,
                checked |-> rec.checked]
          ELSE <<>>)
    @@ IdleRun

\* the environment check made before the secret check
BeginEnvFirst(req) ==
  IF \/ ~Truthy(config.TELEGRAM_BOT_TOKEN)
     \/ ~Truthy(config.TELEGRAM_CHAT_ID)
     \/ ~Truthy(config.CRON_SECRET)
    THEN Respond(500, [error |-> "Server misconfigured",
                       details |-> "Missing environment variables"])
  ELSE IF ProvidedSecret(req) # config.CRON_SECRET
    THEN Respond(401, [error |-> "Unauthorized"])
  ELSE CallFetchListing(1)

\* an environment check that leaves out TELEGRAM_CHAT_ID
BeginSkipsChatId(req) ==
  IF ProvidedSecret(req) # config.CRON_SECRET
    THEN Respond(401, [error |-> "Unauthorized"])
  ELSE IF ~Truthy(config.TELEGRAM_BOT_TOKEN) \/ ~Truthy(config.CRON_SECRET)
    THEN Respond(500, [error |-> "Server misconfigured",
                       details |-> "Missing environment variables"])
  ELSE CallFetchListing(1)

\* Lines 39-60: the secret check, the environment check, the first fetch.
Begin(req) ==
  IF ProvidedSecret(req) # config.CRON_SECRET
    THEN Respond(401, [error |-> "Unauthorized"])
  ELSE IF \/ ~Truthy(config.TELEGRAM_BOT_TOKEN)
          \/ ~Truthy(config.TELEGRAM_CHAT_ID)
          \/ ~Truthy(config.CRON_SECRET)
    THEN Respond(500, [error |-> "Server misconfigured",
                       details |-> "Missing environment variables"])
  ELSE CallFetchListing(1)

Start(r, req) ==
  /\ run[r].pc = "idle"
  /\ run' = [q \in Runs |->
               IF q = r THEN Begin(req) @@ [request |-> req] @@ run[r]
               ELSE IF run[q].pc \in {"done", "crashed"} THEN Trim(run[q])
               ELSE run[q]]
  /\ UNCHANGED <<chats, hook, config, seen, ttl, expired>>

\* Lines 61-85 for a page that fetchListing returned.
PageFetched(rec, html) ==
  IF rec.page = 1
    THEN LET pageInfo == extractTotalCats(html)
             firstPageCats == extractCats(html)
         IN  [totalCats |-> pageInfo.totalCats, totalPages |-> pageInfo.totalPages]
             @@ (IF pageInfo.totalPages > 1
                   THEN [allCats |-> firstPageCats] @@ CallFetchListing(2)
                   ELSE AfterPages(firstPageCats))
    ELSE LET allCats == rec.allCats \o extractCats(html)
         IN  IF rec.page < rec.totalPages
               THEN [allCats |-> allCats, pc |-> "sleepPage"]
               ELSE AfterPages(allCats)

\* a failed page taken as a page without records
PageSkipped(rec, error) ==
  IF rec.page = 1
    THEN [totalCats |-> 0, totalPages |-> 1] @@ AfterPages(<<>>)
  ELSE IF rec.page < rec.totalPages THEN [pc |-> "sleepPage"]
  ELSE AfterPages(rec.allCats)

\* A failure of fetchListing for this page reaches the handler.
PageFailed(rec, error) == Caught(error)

\* Lines 156-187: one attempt of fetchListing ends.
FetchReturns(r, out) ==
  /\ run[r].pc = "fetch"
  /\ IF out.kind = "html"
       THEN Set(r, PageFetched(run[r], out.html)
                     @@ [thrown |-> NoError, request |-> NoRequest])
     ELSE IF ShouldRetry(run[r].retryCount, ThrownBy(out))
       THEN Set(r, [pc |-> "backoff", thrown |-> ThrownBy(out),
                    request |-> NoRequest])
     ELSE Set(r, PageFailed(run[r], ThrownBy(out))
                   @@ [thrown |-> ThrownBy(out), failedPage |-> run[r].page,
                       request |-> NoRequest])
  /\ UNCHANGED <<chats, hook, config, seen, ttl, expired>>

\* a retry that does not count its attempts
BackoffForever(r) ==
  /\ run[r].pc = "backoff"
  /\ Set(r, [pc |-> "fetch"])
  /\ UNCHANGED <<chats, hook, config, seen, ttl, expired>>

\* Lines 182-183: sleep(2000) is over, fetchListing(url, retryCount - 1).
Backoff(r) ==
  /\ run[r].pc = "backoff"
  /\ Set(r, [pc |-> "fetch", retryCount |-> run[r].retryCount - 1,
              tries |-> run[r].tries + 1])
  /\ UNCHANGED <<chats, hook, config, seen, ttl, expired>>

\* a loop that does not advance its page
SleepPageRepeats(r) ==
  /\ run[r].pc = "sleepPage"
  /\ Set(r, CallFetchListing(run[r].page))
  /\ UNCHANGED <<chats, hook, config, seen, ttl, expired>>

\* Lines 81-83 and 70-74: sleep(1000) is over, the next page is requested.
SleepPage(r) ==
  /\ run[r].pc = "sleepPage"
  /\ Set(r, CallFetchListing(run[r].page + 1))
  /\ UNCHANGED <<chats, hook, config, seen, ttl, expired>>

(* ------------------------- notifyTelegram ----------------------------- *)

\* a slice that is one record short
catsToNotifyShort(newCats) == Slice(newCats, MAX_CATS_TO_NOTIFY - 1)

\* newCats.slice(0, MAX_CATS_TO_NOTIFY)
catsToNotify(newCats) == Slice(newCats, MAX_CATS_TO_NOTIFY)

\* a count of all the new records
remainingCountAll(newCats) == Len(newCats)

\* count - catsToNotify.length
remainingCount(newCats) == Len(newCats) - Len(catsToNotify(newCats))

\* a commit of the ids of the records a message was posted for only
CallPersistNotified(rec) ==
  LET catIds == IdsOf(catsToNotify(rec.newCats))
  IN  IF Len(catIds) = 0 THEN Success(rec)
      ELSE [pc |-> "sadd", persisted |-> catIds]

\* persistCatIds(newCats.map(cat => cat.id)) up to its kv.sadd; with no ids
\* it returns at once and the handler answers
CallPersist(rec) ==
  LET catIds == IdsOf(rec.newCats)
  IN  IF Len(catIds) = 0 THEN Success(rec)
      ELSE [pc |-> "sadd", persisted |-> catIds]

\* after the for loop of notifyTelegram: the summary message, or the return
AfterLoop(rec) ==
  IF remainingCount(rec.newCats) > 0
    THEN [pc |-> "summary", overflow |-> remainingCount(rec.newCats)]
  ELSE CallPersist(rec)

\* the for loop of notifyTelegram goes on after record j
NextCat(rec) ==
  IF rec.j < Len(catsToNotify(rec.newCats))
    THEN [pc |-> "send", j |-> rec.j + 1]
    ELSE AfterLoop(rec)

\* a handler that commits the ids before it notifies
CallNotifyCommitsFirst(rec) == CallPersist(rec)

\* notifyTelegram(newCats) up to its first fetch()
CallNotify(rec) ==
  IF Len(catsToNotify(rec.newCats)) > 0 THEN [pc |-> "send", j |-> 1]
  ELSE AfterLoop(rec)

\* a handler that renews the expiration of the key when no record is new
AfterCheckRenews(rec) ==
  IF Len(rec.newCats) > 0 THEN CallNotify(rec) ELSE [pc |-> "expire"]

\* Lines 122-139: if (newCats.length > 0) notify and persist; the answer
AfterCheck(rec) ==
  IF Len(rec.newCats) > 0 THEN CallNotify(rec) ELSE Success(rec)

\* a membership test that answers 1 for every id once the key is gone
sismemberOfGoneKey(set, id) == set = {} \/ id \in set

\* Line 413: kv.sismember(redisKey, cat.id); a key that does not exist is
\* the empty set
sismember(set, id) == id \in set

\* a membership test done with kv.sadd, which adds the id
AfterProbeAdds(set, id) == set \cup {id}

\* kv.sismember(redisKey, id): the set after the call
AfterProbe(set, id) == set

\* Lines 412-417 and 120-124: one kv.sismember returns.
ProbeReturns(r, ok) ==
  /\ run[r].pc = "probe"
  /\ seen' = IF ok THEN AfterProbe(seen, run[r].cats[run[r].i].id) ELSE seen
  /\ LET rec == run[r]
         cat == rec.cats[rec.i]
         isMember == sismember(seen, cat.id)
         newCats == IF isMember THEN rec.newCats ELSE Append(rec.newCats, cat)
         probed == [probes |-> Append(rec.probes, cat.id), newCats |-> newCats,
                    newIds |-> Range(IdsOf(newCats))]
         done == [checked |-> TRUE] @@ probed
     IN  IF ~ok THEN Set(r, [probes |-> Append(rec.probes, cat.id),
                             storeFailed |-> "sismember"] @@ Caught(StoreError))
         ELSE IF rec.i < Len(rec.cats) THEN Set(r, [i |-> rec.i + 1] @@ probed)
         ELSE Set(r, AfterCheck(done @@ rec) @@ done)
  /\ UNCHANGED <<chats, hook, config, ttl, expired>>

\* a failed delivery that ends the loop
SendThrewBreaks(rec) == AfterLoop(rec)

\* a failed delivery that is thrown to the handler
SendThrewRethrows(rec) == Caught(NetworkError)

\* Lines 485-489: the catch block of the loop; the loop goes on.
SendThrew(rec) == NextCat(rec)

\* Lines 448-489: the fetch() for record j ends.
SendReturns(r, out) ==
  /\ run[r].pc = "send"
  /\ LET rec == run[r]
         cat == catsToNotify(rec.newCats)[rec.j]
         tried == [attempts |-> Append(rec.attempts, cat.id),
                   dest |-> Append(rec.dest, config.TELEGRAM_CHAT_ID)]
     IN  CASE out = "ok" ->
                Set(r, [pc |-> "sendSleep", delivered |-> rec.delivered \cup {cat.id}]
                         @@ tried)
           [] out = "notOk" -> Set(r, [pc |-> "sendSleep"] @@ tried)
           [] out = "throw" -> Set(r, SendThrew(rec) @@ tried)
  /\ UNCHANGED <<chats, hook, config, seen, ttl, expired>>

\* Line 484: sleep(500) is over.
SendSleep(r) ==
  /\ run[r].pc = "sendSleep"
  /\ Set(r, NextCat(run[r]))
  /\ UNCHANGED <<chats, hook, config, seen, ttl, expired>>

\* Lines 493-513 and 127: the fetch() of the summary message ends.
SummaryReturns(r, ok) ==
  /\ run[r].pc = "summary"
  /\ Set(r, CallPersist(run[r])
              @@ [summary |-> IF ok THEN "sent" ELSE "failed"])
  /\ UNCHANGED <<chats, hook, config, seen, ttl, expired>>

(* --------------------------- persistCatIds ---------------------------- *)

\* a write that stores the given ids in place of the members
AfterSaddReplaces(set, catIds) == Range(catIds)

\* kv.sadd(redisKey, ...catIds): the set after the call
AfterSadd(set, catIds) == set \cup Range(catIds)

\* Line 431: kv.sadd(redisKey, ...catIds) returns.
SaddReturns(r, ok) ==
  /\ run[r].pc = "sadd"
  /\ IF ok
       THEN /\ seen' = AfterSadd(seen, run[r].persisted)
            /\ Set(r, [pc |-> "expire",
                        writes |-> Append(run[r].writes, "sadd")])
       ELSE /\ seen' = seen
            /\ Set(r, [storeFailed |-> "sadd"] @@ Caught(StoreError))
  /\ UNCHANGED <<chats, hook, config, ttl, expired>>

\* Lines 434 and 129-139: kv.expire(redisKey, 90 days) returns.
ExpireReturns(r, ok) ==
  /\ run[r].pc = "expire"
  /\ IF ok
       THEN /\ ttl' = IF seen # {} THEN TTL_SECONDS ELSE ttl
            /\ Set(r, Success(run[r])
                        @@ [writes |-> Append(run[r].writes, "expire")])
       ELSE /\ ttl' = ttl
            /\ Set(r, [storeFailed |-> "expire"] @@ Caught(StoreError))
  /\ UNCHANGED <<chats, hook, config, seen, expired>>

(* --------------------------- the environment -------------------------- *)

\* Redis drops the key when its time to live has run out.
KeyExpires ==
  /\ ttl # NoTTL
  /\ seen' = {}
  /\ ttl' = NoTTL
  /\ expired' = TRUE
  /\ UNCHANGED <<chats, hook, config, run>>

\* The invocation is stopped at an await and never resumed.
Crash(r) ==
  /\ Active(r)
  /\ Set(r, [pc |-> "crashed"] @@ Trim(run[r]))
  /\ UNCHANGED <<chats, hook, config, seen, ttl, expired>>

\* Invocations that do not overlap: r starts when those before it have ended.
InTurn(r) == \A q \in Runs : q < r => Finished(q)

Step(r) ==
  \/ \E req \in Requests : InTurn(r) /\ Start(r, req)
  \/ \E out \in FetchOutcomes : FetchReturns(r, out)
  \/ Backoff(r)
  \/ SleepPage(r)
  \/ \E ok \in BOOLEAN : ProbeReturns(r, ok)
  \/ \E out \in SendOutcomes : SendReturns(r, out)
  \/ SendSleep(r)
  \/ \E ok \in BOOLEAN : SummaryReturns(r, ok)
  \/ \E ok \in BOOLEAN : SaddReturns(r, ok)
  \/ \E ok \in BOOLEAN : ExpireReturns(r, ok)
  \/ Crash(r)

\* One invocation of the handler, on any contents of the store.
Next == Step(1) \/ KeyExpires

Spec == Init /\ [][Next]_vars

\* A step of an invocation that is not stopped: every call it awaits returns
\* or fails, every sleep ends.
LiveStep(r) ==
  \/ \E req \in Requests : InTurn(r) /\ Start(r, req)
  \/ \E out \in FetchOutcomes : FetchReturns(r, out)
  \/ Backoff(r)
  \/ SleepPage(r)
  \/ \E ok \in BOOLEAN : ProbeReturns(r, ok)
  \/ \E out \in SendOutcomes : SendReturns(r, out)
  \/ SendSleep(r)
  \/ \E ok \in BOOLEAN : SummaryReturns(r, ok)
  \/ \E ok \in BOOLEAN : SaddReturns(r, ok)
  \/ \E ok \in BOOLEAN : ExpireReturns(r, ok)

NextLive == LiveStep(1) \/ KeyExpires

\* One invocation whose awaited calls all end: a promise that is pending
\* settles, a timer that is set fires.
SpecLive == Init /\ [][NextLive]_vars /\ WF_vars(LiveStep(1))

\* Two invocations, the second after the first has ended.
NextTwo == (\E r \in Runs : Step(r)) \/ KeyExpires

SpecTwo == Init /\ [][NextTwo]_vars

(* -------------------------- overlapping invocations ------------------- *)

\* a request that passes the secret check of a valid configuration
AuthorizedRequest == [authorization |-> <<"Bearer ", "s3cret">>, secret |-> None]

\* one-page listings for the overlapping invocations: no record, the first
\* id, the second id, both
OverlapPages ==
  {[total |-> 0, anchors |-> a] :
     a \in {<<>>, <<Single(1)>>, <<Single(2)>>, <<Single(1), Single(2)>>}}

OverlapOutcomes ==
  {[kind |-> "body", error |-> BodyError]}
    \cup {[kind |-> "html", html |-> h] : h \in OverlapPages}

\* The store holds nothing or the first id; the configuration is valid.
InitOverlap ==
  /\ config \in {c \in Configs : \A k \in {"TELEGRAM_BOT_TOKEN", "TELEGRAM_CHAT_ID",
                                             "CRON_SECRET"} : Truthy(c[k])}
  /\ seen \in {{}, {1}}
  /\ ttl = IF seen = {} THEN NoTTL ELSE TTL_SECONDS
  /\ chats = {}
  /\ hook = IdleHook
  /\ expired = FALSE
  /\ run = [r \in Runs |-> IdleRun]

\* A step of invocation r, whatever the other invocation is doing.  With at
\* most two records the list of new records never exceeds the cap, so the
\* summary message is not reached.
OverlapStep(r) ==
  \/ Start(r, AuthorizedRequest)
  \/ \E out \in OverlapOutcomes : FetchReturns(r, out)
  \/ \E ok \in BOOLEAN : ProbeReturns(r, ok)
  \/ \E out \in SendOutcomes : SendReturns(r, out)
  \/ SendSleep(r)
  \/ \E ok \in BOOLEAN : SaddReturns(r, ok)
  \/ \E ok \in BOOLEAN : ExpireReturns(r, ok)

\* Two invocations of the handler that may overlap: nothing orders their
\* awaits, and the store has no lock.
NextOverlap == (\E r \in Runs : OverlapStep(r)) \/ KeyExpires

SpecOverlap == InitOverlap /\ [][NextOverlap]_vars

(* ------------------------- the pagination planner --------------------- *)

\* The handler with a valid configuration, after an authorized request, at
\* its first await: fetchListing(CHECK_URL).
InitPlan ==
  /\ config \in {c \in Configs : \A k \in {"TELEGRAM_BOT_TOKEN", "TELEGRAM_CHAT_ID",
                                             "CRON_SECRET"} : Truthy(c[k])}
  /\ seen = {}
  /\ ttl = NoTTL
  /\ chats = {}
  /\ hook = IdleHook
  /\ expired = FALSE
  /\ run = [r \in Runs |-> IF r = 1 THEN CallFetchListing(1) @@ IdleRun ELSE IdleRun]

\* Lines 60-72: page 1 arrives; any total can stand on it.
FirstPageReturns(html) ==
  /\ run[1].pc = "fetch" /\ run[1].page = 1
  /\ Set(1, PageFetched(run[1], html)
               @@ [request |-> NoRequest, pagesRead |-> <<html>>])
  /\ UNCHANGED <<chats, hook, config, seen, ttl, expired>>

NextPlan ==
  \E t \in 0..MaxTotal, a \in AnchorLists :
    FirstPageReturns([total |-> t, anchors |-> a])

SpecPlan == InitPlan /\ [][NextPlan]_vars

(* ----------------------- extraction and eligibility ------------------- *)

\* age texts of a card: none, under and at the minimum age, years, years
\* and months, an English unit, a unit that no pattern knows
AgeTexts ==
  {<<>>, Age(MIN_AGE_MONTHS - 1, "maanden"), Age(MIN_AGE_MONTHS, "maanden"),
   Age(1, "jaar"), Age(1, "jaar") \o Age(3, "maanden"),
   Age(2, "years"), Age(3, "weken")}

\* two ids, each with every name, age text and place of the age text
ExtractAnchors ==
  {Card(id, name, age, ageClass) :
     id \in {1, 2}, name \in {PlainName, DuoName}, age \in AgeTexts,
     ageClass \in BOOLEAN}

\* descriptions: none, one without a keyword, one with a keyword of
\* duoPatterns, one with a relationship pattern
Descriptions ==
  {<<>>, <<"lieve", " ", "kat">>, <<"alleen", " ", "samen">>,
   <<"met", " ", "zijn", " ", "zus", " ", "samen">>}

\* cards of sufficient age with every form of name and description
NamedAnchors ==
  {Described(Card(id, name, Age(MIN_AGE_MONTHS, "maanden"), TRUE), text) :
     id \in {1, 2},
     name \in {PlainName, DuoName, AmpName, TightAmpName, ParenDuoName, KeywordName},
     text \in Descriptions}

\* the cards that stand together on a page or follow on the next page
PairAnchors ==
  {Single(1), Single(2), Young1, Duo2,
   Card(1, DuoName, Age(1, "jaar") \o Age(3, "maanden"), FALSE)}

ExtractLists ==
  {<<>>} \cup {<<a>> : a \in ExtractAnchors \cup NamedAnchors}
         \cup {<<a, b>> : a \in PairAnchors, b \in PairAnchors}

\* first pages of a listing of one page or of two pages
ExtractPages == [total : {0, CATS_PER_PAGE + 1}, anchors : ExtractLists]

\* second pages
LaterPages == [total : {0}, anchors : {<<>>} \cup {<<a>> : a \in PairAnchors}]

\* A valid configuration with every setting of FILTER_DUO_ADOPTIONS, an
\* empty store, and the handler at its first await.
InitExtract ==
  /\ config \in [TELEGRAM_BOT_TOKEN : {<<"token">>}, TELEGRAM_CHAT_ID : {<<"42">>},
                  CRON_SECRET : {Secret},
                  FILTER_DUO_ADOPTIONS : {None, <<"false">>, <<"true">>}]
  /\ seen = {}
  /\ ttl = NoTTL
  /\ chats = {}
  /\ hook = IdleHook
  /\ expired = FALSE
  /\ run = [r \in Runs |-> IF r = 1 THEN CallFetchListing(1) @@ IdleRun ELSE IdleRun]

\* Lines 74-76: a page after the first arrives.
LaterPageReturns(html) ==
  /\ run[1].pc = "fetch" /\ run[1].page >= 2
  /\ Set(1, PageFetched(run[1], html)
               @@ [pagesRead |-> Append(run[1].pagesRead, html)])
  /\ UNCHANGED <<chats, hook, config, seen, ttl, expired>>

\* The pages arrive, and every later call succeeds.  With two ids the list
\* of new records never exceeds the cap.
NextExtract ==
  \/ \E h \in ExtractPages : FirstPageReturns(h)
  \/ \E h \in LaterPages : LaterPageReturns(h)
  \/ ProbeReturns(1, TRUE)
  \/ SendReturns(1, "ok")
  \/ SendSleep(1)
  \/ SaddReturns(1, TRUE)
  \/ ExpireReturns(1, TRUE)

SpecExtract == InitExtract /\ [][NextExtract]_vars

(* ------------------------------ the webhook --------------------------- *)

\* The updates Telegram posts: a text message, a change of a member's status
\* in a chat, a message about a new member; and a request that is no POST.
Updates ==
  [kind : {"message"}, chat : Chats, text : {"/start", "/status", "/stop", "hello"}]
  \cup [kind : {"my_chat_member"}, chat : Chats, user : {"bot", "other"},
        status : {"member", "administrator", "left", "kicked", "restricted"}]
  \cup [kind : {"new_chat_members"}, chat : Chats, user : {"bot", "other"}]
  \cup {[kind |-> "get"]}

\* the update makes the handler call addChatId
Adds(u) ==
  \/ u.kind = "message" /\ u.text = "/start"
  \/ u.kind = "my_chat_member" /\ u.user = "bot"
       /\ u.status \in {"member", "administrator"}
  \/ u.kind = "new_chat_members" /\ u.user = "bot"

\* the update makes the handler call removeChatId
Removes(u) ==
  \/ u.kind = "message" /\ u.text = "/stop"
  \/ u.kind = "my_chat_member" /\ u.user = "bot" /\ u.status \in {"left", "kicked"}

HookSet(ch) == hook' = ch @@ hook

\* res.status(status).json(...); an update answered 200 that added or
\* removed its chat is noted
HookResponds(status) ==
  LET u == hook.update
  IN  [pc |-> "done", status |-> status, update |-> NoUpdate,
       chatData |-> NoChatData]
        @@ (IF status = 200 /\ Adds(u)
              THEN [last |-> [hook.last EXCEPT ![u.chat] = "added"]]
            ELSE IF status = 200 /\ Removes(u)
              THEN [last |-> [hook.last EXCEPT ![u.chat] = "removed"]]
            ELSE <<>>)

\* Lines 103-121 and 135-143, once the id of the bot is known.
AfterBotId(u) ==
  IF u.user # "bot" THEN [pc |-> "respond"]
  ELSE IF Adds(u) THEN [pc |-> "sadd"]
  ELSE IF Removes(u) THEN [pc |-> "smembers"]
  ELSE [pc |-> "respond"]

\* Lines 147-162: the commands.
Command(u) ==
  IF u.text \in {"/start"} THEN [pc |-> "sadd"]
  ELSE IF u.text \in {"/status", "/stop"} THEN [pc |-> "smembers"]
  ELSE [pc |-> "respond"]

\* Lines 64-83, 98-102 and 127-133: an update arrives once the one before it
\* is answered; the handler runs up to its first await.
HookReceives(u) ==
  /\ hook.pc \in {"idle", "done"}
  /\ HookSet(
       (IF u.kind = "get" THEN [pc |-> "done", status |-> 405, update |-> NoUpdate]
        ELSE IF u.kind = "message" THEN Command(u)
        ELSE IF hook.cachedBotId THEN AfterBotId(u)
        ELSE [pc |-> "getMe"]) @@ [update |-> u])
  /\ UNCHANGED <<config, seen, ttl, expired, run, chats>>

\* Lines 174-182: the getMe request of getBotId ends.
GetMeReturns(ok) ==
  /\ hook.pc = "getMe"
  /\ IF ok THEN HookSet([cachedBotId |-> TRUE] @@ AfterBotId(hook.update))
     ELSE HookSet(HookResponds(500))
  /\ UNCHANGED <<config, seen, ttl, expired, run, chats>>

\* Lines 188-200: kv.sadd(CHAT_IDS_KEY, JSON.stringify(chatData)) returns;
\* addedAt is the time of the call, which is not before the last reading.
HookSaddReturns(stamp, ok) ==
  /\ hook.pc = "sadd"
  /\ stamp \in {hook.clock, hook.clock + 1} /\ stamp <= MaxStamp
  /\ IF ok
       THEN /\ chats' = chats \cup {ChatData(hook.update.chat, stamp)}
            /\ HookSet([pc |-> "sendMessage", clock |-> stamp])
       ELSE /\ chats' = chats
            /\ HookSet(HookResponds(500))
  /\ UNCHANGED <<config, seen, ttl, expired, run>>

\* after removeChatId
AfterRemove(u) ==
  IF u.kind = "message" THEN [pc |-> "sendMessage"] ELSE [pc |-> "respond"]

\* getChatIds().includes(chat.id.toString())
IsSubscribed(chatId) == \E m \in chats : m.id = chatId

\* Lines 153-157, 207-221 and 228-238: kv.smembers(CHAT_IDS_KEY) returns.
\* removeChatId removes the member it meets first with the id of the chat,
\* and the members come in no fixed order.
SmembersReturns(found, ok) ==
  /\ hook.pc = "smembers"
  /\ LET u == hook.update
     IN  IF ~ok THEN HookSet(HookResponds(500))
         ELSE IF u.kind = "message" /\ u.text = "/status"
           THEN HookSet([pc |-> "sendMessage",
                         reply |-> [chat |-> u.chat,
                                   subscribed |-> IsSubscribed(u.chat)]])
         ELSE IF IsSubscribed(u.chat)
           THEN /\ found \in chats /\ found.id = u.chat
                /\ HookSet([pc |-> "srem", chatData |-> found])
         ELSE HookSet(AfterRemove(u))
  /\ UNCHANGED <<config, seen, ttl, expired, run, chats>>

\* Lines 214-216: kv.srem(CHAT_IDS_KEY, chatDataStr) returns.
SremReturns(ok) ==
  /\ hook.pc = "srem"
  /\ IF ok
       THEN /\ chats' = chats \ {hook.chatData}
            /\ HookSet(AfterRemove(hook.update) @@ [chatData |-> NoChatData])
       ELSE /\ chats' = chats
            /\ HookSet(HookResponds(500))
  /\ UNCHANGED <<config, seen, ttl, expired, run>>

\* Lines 244-260: the fetch() of sendMessage ends; its error is caught.
HookSendReturns ==
  /\ hook.pc = "sendMessage"
  /\ HookSet([pc |-> "respond"])
  /\ UNCHANGED <<config, seen, ttl, expired, run, chats>>

\* Line 85: the handler answers 200.
HookReturns ==
  /\ hook.pc = "respond"
  /\ HookSet(HookResponds(200))
  /\ UNCHANGED <<config, seen, ttl, expired, run, chats>>

HookStep ==
  \/ \E u \in Updates : HookReceives(u)
  \/ \E ok \in BOOLEAN : GetMeReturns(ok)
  \/ \E stamp \in 1..MaxStamp : \E ok \in BOOLEAN : HookSaddReturns(stamp, ok)
  \/ \E found \in chats \cup {NoChatData} : \E ok \in BOOLEAN : SmembersReturns(found, ok)
  \/ \E ok \in BOOLEAN : SremReturns(ok)
  \/ HookSendReturns
  \/ HookReturns

\* The webhook and one invocation of the check, which starts with a valid
\* configuration, an empty store and no subscriber.
InitChat ==
  /\ config \in {c \in Configs : \A k \in {"TELEGRAM_BOT_TOKEN", "TELEGRAM_CHAT_ID",
                                             "CRON_SECRET"} : Truthy(c[k])}
  /\ seen = {}
  /\ ttl = NoTTL
  /\ chats = {}
  /\ hook = IdleHook
  /\ expired = FALSE
  /\ run = [r \in Runs |-> IdleRun]

\* the pages of the check: one record or none
ChatPages == [total : {0}, anchors : {<<>>, <<Single(1)>>}]

\* The check runs between two updates; every call of it succeeds.
CheckStep ==
  /\ hook.pc \in {"idle", "done"}
  /\ \/ Start(1, AuthorizedRequest)
     \/ \E h \in ChatPages : FetchReturns(1, [kind |-> "html", html |-> h])
     \/ ProbeReturns(1, TRUE)
     \/ SendReturns(1, "ok")
     \/ SendSleep(1)
     \/ SaddReturns(1, TRUE)
     \/ ExpireReturns(1, TRUE)

NextChat == HookStep \/ CheckStep

SpecChat == InitChat /\ [][NextChat]_vars

(* ---------- two invocations on a listing that changes between them ------ *)

\* the one page of the listing: none, one or two of the cards
AgingPages ==
  [total : {0},
   anchors : {<<>>} \cup {<<a>> : a \in PairAnchors}
                    \cup {<<a, b>> : a \in PairAnchors, b \in PairAnchors}]

\* Lines 60-72: the page of invocation r arrives.
PageReturns(r, html) ==
  /\ run[r].pc = "fetch" /\ run[r].page = 1
  /\ Set(r, PageFetched(run[r], html) @@ [pagesRead |-> <<html>>])
  /\ UNCHANGED <<chats, hook, config, seen, ttl, expired>>

\* The second invocation is at its first await when the first has answered;
\* the history of the first is kept.
NextCall ==
  /\ run[1].pc = "done" /\ run[2].pc = "idle"
  /\ Set(2, CallFetchListing(1))
  /\ UNCHANGED <<chats, hook, config, seen, ttl, expired>>

\* With two ids the list of new records never exceeds the cap.
NextAging ==
  \/ \E r \in Runs, h \in AgingPages : PageReturns(r, h)
  \/ NextCall
  \/ \E r \in Runs, ok \in BOOLEAN : ProbeReturns(r, ok)
  \/ \E r \in Runs, out \in SendOutcomes : SendReturns(r, out)
  \/ \E r \in Runs : SendSleep(r)
  \/ \E r \in Runs, ok \in BOOLEAN : SaddReturns(r, ok)
  \/ \E r \in Runs, ok \in BOOLEAN : ExpireReturns(r, ok)
  \/ KeyExpires

\* The store is empty before the first invocation.
SpecAging == InitExtract /\ [][NextAging]_vars

(* ------------------------------ properties ---------------------------- *)

Ok(r) == run[r].pc = "done" /\ run[r].result.status = 200

\* the invocation ended in the catch block of the handler
Failed(r) == run[r].pc = "done" /\ run[r].result.status = 500

\* C1 (idempotent re-run): when an invocation has answered OK, the key has
\* not expired, and the next invocation computes the same set of eligible
\* ids, that invocation finds no new record, posts no message, gives nothing
\* to persistCatIds, writes nothing, and answers with new = 0.
C1_IdempotentRerun ==
  (Ok(1) /\ ~expired /\ run[2].pc # "idle"
      /\ run[2].eligibleIds = run[1].eligibleIds)
    => /\ run[2].newIds = {}
       /\ run[2].attempts = <<>>
       /\ run[2].summary = "none"
       /\ run[2].persisted = <<>>
       /\ run[2].writes = <<>>
       /\ (Ok(2) /\ ~run[2].trimmed => run[2].result.body.new = 0)

C1_Witness ==
  /\ Ok(1) /\ ~expired
  /\ Cardinality(run[1].newIds) > MAX_CATS_TO_NOTIFY
  /\ Ok(2) /\ ~run[2].trimmed
  /\ run[2].checked
  /\ run[2].eligibleIds = run[1].eligibleIds
  /\ run[2].result.body.new = 0

\* C2 (fatal first page): when fetchListing for page 1 has failed after its
\* retry, the invocation has ended with status 500 and a body that carries
\* the error's message, and it has made no novelty check, posted no message
\* and written nothing to the store.
C2_FatalFirstPage ==
  \A r \in Runs :
    (run[r].failedPage = 1 /\ run[r].tries = 2)
      => /\ Failed(r)
         /\ run[r].result.body.error = "Internal server error"
         /\ run[r].result.body.message = run[r].thrown.message
         /\ run[r].probes = <<>>
         /\ run[r].attempts = <<>>
         /\ run[r].summary = "none"
         /\ run[r].persisted = <<>>
         /\ run[r].writes = <<>>

C2_Witness ==
  \E r \in Runs :
    /\ run[r].failedPage = 1 /\ run[r].tries = 2
    /\ Failed(r)
    /\ run[r].thrown = AbortError

\* C3 (graceful degradation on later pages), as the specification states it:
\* a failure of fetchListing for a page k >= 2 does not end the invocation in
\* the catch block; the page counts as a page without records.
C3_LaterPageFailureDegrades ==
  \A r \in Runs :
    run[r].failedPage >= 2
      => ~(Failed(r) /\ run[r].result.body.message = run[r].thrown.message
                     /\ run[r].probes = <<>>)

\* C4 (a failed delivery does not block the commit): an invocation that has
\* posted a message and has ended either failed on a store call, or answered
\* OK with new = the number of new records, after persistCatIds was given the
\* ids of all new records and both of its writes succeeded; this whichever
\* of the deliveries failed.
C4_NotifyFailureDoesNotBlockCommit ==
  \A r \in Runs :
    (run[r].pc = "done" /\ ~run[r].trimmed /\ run[r].attempts # <<>>)
      => \/ /\ Failed(r)
            /\ run[r].result.body.message = StoreError.message
            /\ run[r].persisted = IdsOf(run[r].newCats)
         \/ /\ Ok(r)
            /\ run[r].result.body.ok
            /\ run[r].result.body.new = Len(run[r].newCats)
            /\ run[r].result.body.new > 0
            /\ run[r].persisted = IdsOf(run[r].newCats)
            /\ run[r].writes = <<"sadd", "expire">>
            /\ (~expired => Range(run[r].persisted) \subseteq seen)

C4_Witness ==
  \E r \in Runs :
    /\ Ok(r) /\ ~run[r].trimmed
    /\ Len(run[r].attempts) = 2
    /\ run[r].attempts[1] \notin run[r].delivered
    /\ run[r].attempts[2] \notin run[r].delivered
    /\ run[r].writes = <<"sadd", "expire">>
    /\ Range(run[r].persisted) \subseteq seen

StoppedBeforeCommit(r) ==
  run[r].pc = "crashed" /\ run[r].checked /\ run[r].persisted = <<>>

\* the members of the set change only when a kv.sadd of persistCatIds
\* returns or when the key expires
SeenChangesOnlyAtCommit ==
  seen' # seen
    => \/ seen' = {} /\ expired'
       \/ \E r \in Runs : /\ run[r].pc = "sadd"
                          /\ run'[r].pc = "expire"
                          /\ seen' = seen \cup Range(run[r].persisted)

C6_SameNewSet ==
  (StoppedBeforeCommit(1) /\ ~expired /\ run[2].checked
      /\ run[2].eligibleIds = run[1].eligibleIds)
    => run[2].newIds = run[1].newIds

\* C6 (a crash before the commit is safe): no step before the kv.sadd of
\* persistCatIds changes the set, and when an invocation was stopped after
\* its novelty check and before persistCatIds, the next invocation, on the
\* same eligible ids and without an expiry, reports the same ids as new.
C6_CrashBeforeCommitSafe ==
  [][SeenChangesOnlyAtCommit]_vars /\ []C6_SameNewSet

C6_Witness ==
  /\ StoppedBeforeCommit(1) /\ ~expired
  /\ run[1].newIds # {}
  /\ run[2].checked
  /\ run[2].eligibleIds = run[1].eligibleIds
  /\ run[2].newIds = run[1].newIds
  /\ run[2].pc = "send"

\* C7 (commit set = new set), as the specification states it: the ids given
\* to persistCatIds are the ids of the new records, and a message was posted
\* for every one of them, also when they are more than MAX_CATS_TO_NOTIFY.
C7_EveryCommittedIdAttempted ==
  \A r \in Runs :
    (~run[r].trimmed /\ run[r].persisted # <<>>)
      => /\ run[r].persisted = IdsOf(run[r].newCats)
         /\ Range(run[r].persisted) \subseteq Range(run[r].attempts)

\* C7, amended: the ids given to persistCatIds are the ids of the new
\* records; a message was posted before for the first MAX_CATS_TO_NOTIFY of
\* them and for no other, and when there are more the summary message was
\* posted, so the ids past the cap are committed without a message of their
\* own.
C7_CommitSetIsNewSet ==
  \A r \in Runs :
    (~run[r].trimmed /\ run[r].persisted # <<>>)
      => /\ run[r].persisted = IdsOf(run[r].newCats)
         /\ Range(run[r].persisted) = run[r].newIds
         /\ run[r].attempts = SubSeq(run[r].persisted, 1,
                                Min(Len(run[r].persisted), MAX_CATS_TO_NOTIFY))
         /\ (Len(run[r].persisted) > MAX_CATS_TO_NOTIFY) = (run[r].summary # "none")

C7_Witness ==
  \E r \in Runs :
    /\ Ok(r) /\ ~run[r].trimmed
    /\ Len(run[r].persisted) > MAX_CATS_TO_NOTIFY
    /\ Len(run[r].attempts) = MAX_CATS_TO_NOTIFY
    /\ run[r].summary = "sent"

\* C8 (at-least-once notification), as the specification states it: no id is
\* added to the set by an invocation unless Telegram accepted the message
\* for its record in that invocation.
C8_CommittedOnlyIfDelivered ==
  \A r \in Runs :
    (~run[r].trimmed /\ run[r].writes # <<>>)
      => Range(run[r].persisted) \subseteq run[r].delivered

\* a failure of the network rather than an answer of the server
NetworkClass(error) == error \in {AbortError, NetworkError, BodyError}

\* C9 (fetch retry), as the specification states it: fetchListing makes at
\* most two attempts, and a timeout or any other failure of the network on
\* the first attempt is followed by a second attempt, so that such a failure
\* reaches the handler only from the second attempt.
C9_NetworkFailureRetriedOnce ==
  \A r \in Runs :
    /\ run[r].tries <= 2
    /\ (run[r].failedPage # 0 /\ NetworkClass(run[r].thrown))
         => run[r].tries = 2

IsHttpError(error) ==
  error.name = "Error" /\ Len(error.message) > 0 /\ Head(error.message) = "HTTP"

\* C10 (HTTP error is fatal without retry), as the specification states it:
\* a failure that is a non-2xx status of the server is never retried.
C10_HttpStatusNotRetried ==
  \A r \in Runs :
    IsHttpError(run[r].thrown) => run[r].pc # "backoff"

\* the fetch() of a delivery has thrown in this step: a post was made for
\* record j and the loop did not go on to its sleep(500)
SendThrows(r) ==
  /\ run[r].pc = "send"
  /\ Len(run'[r].attempts) = Len(run[r].attempts) + 1
  /\ run'[r].pc # "sendSleep"

\* C11 (notify retry), as the specification states it: when the first post
\* of a message fails with a timeout or a network error, the same message is
\* posted once more (after a backoff) before the loop goes on.
C11_NotifyRetriedOnce ==
  [][\A r \in Runs :
       (SendThrows(r) /\ Last(run'[r].attempts) \notin Range(run[r].attempts))
         => /\ run'[r].pc \in {"send", "sendBackoff"}
            /\ run'[r].j = run[r].j]_vars

\* the handler has planned its pages: page 1 has arrived
Planned(r) ==
  /\ ~run[r].trimmed /\ run[r].page >= 1 /\ run[r].failedPage # 1
  /\ ~(run[r].page = 1 /\ run[r].pc \in {"fetch", "backoff"})

\* the least n with n * CATS_PER_PAGE >= t
PagesFor(t) ==
  CHOOSE n \in 0..t : n * CATS_PER_PAGE >= t /\ (n = 0 \/ (n - 1) * CATS_PER_PAGE < t)

\* C12 (pagination planner): for every declared total t >= 0 the planned
\* number of pages is max(1, ceil(t / 16)); a total of 60 gives 4 pages, a
\* total of 0 gives 1, and the number is never less than 1.
C12_PaginationPlanner ==
  \A r \in Runs :
    Planned(r) =>
      /\ run[r].totalPages = IF PagesFor(run[r].totalCats) > 1
                               THEN PagesFor(run[r].totalCats) ELSE 1
      /\ run[r].totalPages >= 1
      /\ (run[r].totalCats = 60 => run[r].totalPages = 4)
      /\ (run[r].totalCats = 0 => run[r].totalPages = 1)

C12_Witness ==
  /\ Planned(1)
  /\ run[1].totalCats = 60 /\ run[1].totalPages = 4
  /\ run[1].pc = "fetch" /\ run[1].page = 2

\* a call of fetchListing begins in this step (not the retry inside a call)
NewCall(r) ==
  /\ run'[r].pc = "fetch"
  /\ run[r].pc # "backoff"
  /\ run'[r] # run[r]

\* the pages are behind: the handler is past its page loop
PastPages(r) ==
  /\ Planned(r)
  /\ \/ run[r].pc \in {"probe", "send", "sendSleep", "summary", "sadd", "expire"}
     \/ run[r].pc = "done" /\ run[r].failedPage = 0

PagesInOrder ==
  \A r \in Runs :
    /\ NewCall(r)
         => /\ run[r].pc \in {"idle", "fetch", "sleepPage"}
            /\ run'[r].page = run[r].page + 1
            /\ (run[r].page >= 1 => run'[r].page <= run'[r].totalPages)
    /\ run'[r].page # run[r].page => NewCall(r) \/ run'[r].trimmed

AllPagesOnce ==
  \A r \in Runs :
    /\ Planned(r) => run[r].page <= run[r].totalPages
    /\ PastPages(r) => run[r].page = run[r].totalPages

\* C13 (page fetch order): the first call of fetchListing is for page 1; each
\* later call is for the page after the one just fetched, begins only when
\* that fetch has returned, and never goes past totalPages; the handler
\* leaves its page loop only with page = totalPages, so every page of
\* 1..totalPages was requested once, and with totalPages = 1 page 1 only.
C13_PageFetchOrder ==
  [][PagesInOrder]_vars /\ []AllPagesOnce

C13_Witness ==
  /\ PastPages(1)
  /\ run[1].totalPages = MaxPages /\ run[1].page = MaxPages
  /\ run[1].pc = "probe"

\* C14 (inter-page delay), as the specification states it: every call of
\* fetchListing for a page k + 1 >= 2 begins from the inter-page delay
\* sleep(1000) that follows the fetch of page k, the call for page 2 included.
C14_DelayBetweenPages ==
  [][\A r \in Runs :
       (NewCall(r) /\ run'[r].page >= 2) => run[r].pc = "sleepPage"]_vars

\* C15 (zero extracted records is a warning, not an error): when the pages
\* of an invocation have yielded no record at all, it has answered 200 with
\* ok = true, found = 0, new = 0 and a warning, and it has made no
\* kv.sismember call, no post and no store write.
C15_ZeroRecordsIsWarning ==
  \A r \in Runs :
    run[r].extracted = "none"
      => /\ Ok(r)
         /\ run[r].result.body.ok
         /\ run[r].result.body.found = 0
         /\ run[r].result.body.new = 0
         /\ "warning" \in DOMAIN run[r].result.body
         /\ run[r].probes = <<>>
         /\ run[r].attempts = <<>>
         /\ run[r].summary = "none"
         /\ run[r].persisted = <<>>
         /\ run[r].writes = <<>>

C15_Witness ==
  \E r \in Runs :
    /\ run[r].extracted = "none" /\ Ok(r)
    /\ run[r].totalPages >= 2
    /\ run[r].result.body.warning = "No cats found"
    /\ seen # {}

\* C16 (RunResult shape), as the specification states it: every response
\* body with ok = true carries totalCats, totalPages, found, new and
\* timestamp, on the warning path as well.
C16_OkResultShape ==
  \A r \in Runs :
    (Ok(r) /\ ~run[r].trimmed /\ run[r].result.body.ok)
      => {"totalCats", "totalPages", "found", "new", "timestamp"}
           \subseteq DOMAIN run[r].result.body

\* the request of the invocation is known: it was answered before any fetch,
\* or its first fetch is in flight
Received(r) ==
  /\ ~run[r].trimmed
  /\ \/ run[r].pc = "done" /\ run[r].page = 0
     \/ run[r].pc = "fetch" /\ run[r].page = 1 /\ run[r].tries = 1

\* the token of the Authorization header, None without the header
BearerToken(req) ==
  IF req.authorization = None THEN None ELSE Tail(req.authorization)

\* C17 (an unauthorized trigger has no effect): a request of which neither
\* the bearer token nor the secret query parameter equals the configured
\* secret is answered 401 Unauthorized, and the invocation fetches no page,
\* makes no store call and posts no message.
C17_UnauthorizedNoEffect ==
  \A r \in Runs :
    (Received(r) /\ config.CRON_SECRET \notin
                      {BearerToken(run[r].request), run[r].request.secret})
      => /\ run[r].pc = "done"
         /\ run[r].result.status = 401
         /\ run[r].result.body = [error |-> "Unauthorized"]
         /\ run[r].page = 0 /\ run[r].tries = 0
         /\ run[r].probes = <<>>
         /\ run[r].attempts = <<>>
         /\ run[r].summary = "none"
         /\ run[r].persisted = <<>>
         /\ run[r].writes = <<>>

C17_Witness ==
  \E r \in Runs :
    /\ Received(r)
    /\ run[r].request = [authorization |-> <<"Bearer ", "wrong">>, secret |-> None]
    /\ config.CRON_SECRET = Secret
    /\ run[r].result.status = 401
    /\ seen # {}

\* the secrets the request carries
Supplied(req) == {BearerToken(req), req.secret} \ {None}

\* C18 (bearer token or query parameter), as the specification states it:
\* for every combination of header and query values the request passes the
\* secret check if and only if at least one of the two equals the configured
\* secret.
C18_HeaderOrQuery ==
  \A r \in Runs :
    Received(r)
      => (config.CRON_SECRET \in Supplied(run[r].request))
           = ~(run[r].pc = "done" /\ run[r].result.status = 401)

\* the records of s whose id is not a member of the set
NotSeen(s) == SelectSeq(s, LAMBDA c : c.id \notin seen)

\* a kv.sismember call returns in this step
Probes(r) == Len(run'[r].probes) = Len(run[r].probes) + 1

ProbeLeavesStore ==
  \A r \in Runs : Probes(r) => seen' = seen /\ ttl' = ttl

NewCatsAreNotSeen ==
  \A r \in Runs :
    (~run[r].trimmed /\ ~expired /\ run[r].writes = <<>>)
      => /\ run[r].pc = "probe" /\ run[r].result.status = 0
              => /\ run[r].probes = SubSeq(IdsOf(run[r].cats), 1, run[r].i - 1)
                 /\ run[r].newCats = NotSeen(SubSeq(run[r].cats, 1, run[r].i - 1))
         /\ run[r].checked
              => /\ run[r].probes = IdsOf(run[r].cats)
                 /\ run[r].newCats = NotSeen(run[r].cats)

\* C19 (the novelty check never mutates state): every kv.sismember call of
\* getNewCats leaves the members of the set and its time to live as they
\* were; getNewCats makes one call per eligible record, in order, and as long
\* as the key does not expire its result is the sub-sequence of the eligible
\* records whose id is not a member, in input order.
C19_NoveltyCheckReadsOnly ==
  [][ProbeLeavesStore]_vars /\ []NewCatsAreNotSeen

C19_Witness ==
  \E r \in Runs :
    /\ ~run[r].trimmed /\ ~expired
    /\ run[r].checked /\ run[r].pc = "send"
    /\ Len(run[r].cats) = 2
    /\ run[r].cats[1].id \in seen
    /\ run[r].newCats = <<run[r].cats[2]>>
    /\ ttl = TTL_SECONDS

\* persistCatIds returns without an error in this step
PersistReturns(r) ==
  /\ run[r].pc = "expire"
  /\ run'[r].pc = "done" /\ run'[r].result.status = 200

\* C20 (commit and sliding expiration), as the specification states it: when
\* persistCatIds returns successfully, every id it was given is a member of
\* the set and the time to live of the key is 90 days, whatever the time to
\* live was before the call.
C20_CommitThenNinetyDays ==
  [][\A r \in Runs :
       PersistReturns(r)
         => /\ Range(run[r].persisted) \subseteq seen'
            /\ ttl' = TTL_SECONDS]_vars

\* Redis drops the key in this step
Expires == ttl # NoTTL /\ seen' = {} /\ ttl' = NoTTL /\ expired' /\ run' = run

\* the invocation has added its ids to the set
Committed(r) == ~run[r].trimmed /\ Len(run[r].writes) >= 1

SeenOnlyGrows == seen \subseteq seen' \/ Expires

CommittedStay ==
  ~expired => \A r \in Runs : Committed(r) => Range(run[r].persisted) \subseteq seen

\* C21 (the set is monotone): in every step of invocations that succeed,
\* fail or overlap, the members of the set after the step include those
\* before it, unless the step is the expiry of the key; and as long as the
\* key has not expired, the ids an invocation has committed are members.
C21_SeenSetMonotone ==
  [][SeenOnlyGrows]_vars /\ []CommittedStay

C21_Witness ==
  /\ ~expired
  /\ Committed(1) /\ Committed(2)
  /\ run[1].persisted = <<1>> /\ run[2].persisted = <<2>>
  /\ Failed(1) /\ Ok(2)
  /\ seen = {1, 2}

\* the id the kv.sismember call of this step asked for
Probed(r) == Last(run'[r].probes)

\* both novelty checks are over and neither invocation has called
\* persistCatIds: on the ids eligible in both, they report the same as new
SameNewBeforeCommit ==
  (~expired /\ \A r \in Runs : run[r].checked /\ ~run[r].trimmed
                                 /\ run[r].persisted = <<>>)
    => run[1].newIds \cap run[2].eligibleIds = run[2].newIds \cap run[1].eligibleIds

\* a probe answered after another invocation's commit of the id does not
\* report it as new; a message is posted for new records only
NoReportAfterCommit ==
  \A r \in Runs : \A q \in Runs \ {r} :
    (Probes(r) /\ run'[r].pc # "done" /\ ~expired
       /\ Committed(q) /\ Probed(r) \in Range(run[q].persisted))
      => /\ Probed(r) \notin run'[r].newIds
         /\ Probed(r) \notin Range(run'[r].attempts)

OnlyNewNotified ==
  \A r \in Runs : Range(run[r].attempts) \subseteq run[r].newIds

BothCommitsKept ==
  (~expired /\ \A r \in Runs : run[r].pc = "done" /\ ~run[r].trimmed)
    => \A r \in Runs : Committed(r) => Range(run[r].persisted) \subseteq seen

\* C22 (overlapping invocations): nothing locks the store.  Two invocations
\* whose novelty checks are both over before either commits report the same
\* ids as new (and each posts its messages for them); a probe for an id that
\* another invocation has already committed does not report it, and no
\* message is posted for it; when both have ended, the set holds the ids
\* committed by both.
C22_OverlappingRuns ==
  /\ [][NoReportAfterCommit]_vars
  /\ [](SameNewBeforeCommit /\ OnlyNewNotified /\ BothCommitsKept)

C22_Witness ==
  /\ ~expired
  /\ Ok(1) /\ Ok(2) /\ ~run[1].trimmed /\ ~run[2].trimmed
  /\ run[1].eligibleIds = {1, 2} /\ run[2].eligibleIds = {1, 2}
  /\ 2 \in run[1].delivered /\ 2 \in run[2].delivered
  /\ run[1].persisted = run[2].persisted
  /\ seen = {1, 2}

\* the anchors of the pages read, in page and document order
RECURSIVE AnchorsOf(_)
AnchorsOf(pages) ==
  IF pages = <<>> THEN <<>> ELSE Head(pages).anchors \o AnchorsOf(Tail(pages))

\* the pages of the invocation are all read
PagesRead(r) == run[r].extracted # "unknown" /\ run[r].pagesRead # <<>>

\* the ids that stand on the pages read
IdsRead(r) == Range(IdsOf(AnchorsOf(run[r].pagesRead)))

\* the first card with this id on the pages read
FirstCard(r, id) ==
  LET all == AnchorsOf(run[r].pagesRead) IN all[FindIndex(all, id)]

\* no part of the age text counts years (jaar) or months (maand, maanden)
Unparsable(age) ==
  \A k \in 1..Len(age) : age[k].unit \notin {"jaar", "maand", "maanden"}

\* the id went no further than the filter
Dropped(r, id) ==
  /\ id \notin run[r].eligibleIds
  /\ id \notin Range(run[r].probes)
  /\ id \notin Range(run[r].attempts)
  /\ id \notin Range(run[r].persisted)
  /\ id \notin seen

\* C23 (the age predicate is fail-closed): every eligible record has
\* ageInMonths >= 6; with the duo filter switched off a record read from the
\* pages is eligible exactly if its ageInMonths is >= 6; and a record whose
\* age text has no year or month count has ageInMonths = 0 and is never
\* eligible, probed, notified or committed.
C23_AgeFailClosed ==
  \A r \in Runs :
    PagesRead(r) =>
      /\ \A k \in 1..Len(run[r].cats) : run[r].cats[k].ageInMonths >= MIN_AGE_MONTHS
      /\ \A id \in IdsRead(r) :
           LET cat == CatOf(FirstCard(r, id))
           IN  /\ ~FilterDuo(config)
                    => (id \in run[r].eligibleIds) = (cat.ageInMonths >= MIN_AGE_MONTHS)
               /\ cat.ageInMonths < MIN_AGE_MONTHS => Dropped(r, id)
               /\ Unparsable(FirstCard(r, id).age)
                    => cat.ageInMonths = 0 /\ Dropped(r, id)

C23_Witness ==
  /\ PagesRead(1) /\ Ok(1)
  /\ IdsRead(1) = {1, 2}
  /\ Unparsable(FirstCard(1, 1).age) /\ FirstCard(1, 1).age # <<>>
  /\ Dropped(1, 1)
  /\ seen = {2}

\* FILTER_DUO_ADOPTIONS is set to false
DuoFilterDisabled == config.FILTER_DUO_ADOPTIONS = <<"false">>

\* the record extracted for the id is old enough
AgeEligible(r, id) == CatOf(FirstCard(r, id)).ageInMonths >= MIN_AGE_MONTHS

\* the record extracted for the id is detected as a grouped adoption
DetectedDuo(r, id) == isDuoAdoption(CatOf(FirstCard(r, id)))

\* C24 (eligibility is the intersection of the two predicates): a record
\* read from the pages is eligible exactly if it is age-eligible and the duo
\* filter is disabled or the record is not detected as a grouped adoption;
\* the filter is disabled only by FILTER_DUO_ADOPTIONS = false, so an unset
\* toggle filters, and with false no age-eligible record is removed.
C24_EligibilityIntersection ==
  \A r \in Runs :
    PagesRead(r) =>
      /\ \A id \in IdsRead(r) :
           (id \in run[r].eligibleIds)
             = (AgeEligible(r, id) /\ (DuoFilterDisabled \/ ~DetectedDuo(r, id)))
      /\ DuoFilterDisabled
           => run[r].eligibleIds = {id \in IdsRead(r) : AgeEligible(r, id)}

C24_Witness ==
  /\ config.FILTER_DUO_ADOPTIONS = None
  /\ PagesRead(1) /\ Ok(1)
  /\ IdsRead(1) = {1, 2}
  /\ AgeEligible(1, 2) /\ DetectedDuo(1, 2) /\ Dropped(1, 2)
  /\ seen = {1}

\* at most one record per id
OnePerId(s) == \A k \in 1..Len(s) : \A m \in 1..Len(s) : s[k].id = s[m].id => k = m

\* the places of the anchors that are the first of their id
FirstPlaces(anchors) ==
  {k \in 1..Len(anchors) : \A m \in 1..(k - 1) : anchors[m].id # anchors[k].id}

\* s holds the records of the first anchor of every id, in document order
IsFirstOccurrences(s, anchors) ==
  /\ Len(s) = Cardinality(FirstPlaces(anchors))
  /\ \A k \in FirstPlaces(anchors) :
       s[Cardinality({m \in FirstPlaces(anchors) : m <= k})] = CatOf(anchors[k])

\* the first page of a longer listing is extracted and the second is not
BetweenPages(r) ==
  /\ run[r].extracted = "unknown" /\ Len(run[r].pagesRead) = 1
  /\ run[r].page = 2 /\ run[r].pc = "fetch"

\* C25 (duplicate collapse): the records extracted from one page hold one
\* record per id, that of the id's first anchor in document order; after the
\* last page the filtered records hold at most one record per id, and the
\* record of an id is that of its first anchor in page and document order.
C25_DuplicateCollapse ==
  \A r \in Runs :
    /\ BetweenPages(r)
         => /\ OnePerId(run[r].allCats)
            /\ IsFirstOccurrences(run[r].allCats, run[r].pagesRead[1].anchors)
    /\ PagesRead(r)
         => /\ OnePerId(run[r].cats)
            /\ \A k \in 1..Len(run[r].cats) :
                 run[r].cats[k] = CatOf(FirstCard(r, run[r].cats[k].id))
            /\ \A id \in IdsRead(r) :
                 id \in run[r].eligibleIds
                   => \E k \in 1..Len(run[r].cats) : run[r].cats[k].id = id

C25_Witness ==
  /\ PagesRead(1) /\ Ok(1)
  /\ Len(run[1].pagesRead) = 2
  /\ run[1].pagesRead[1].anchors = <<Single(1), Young1>>
  /\ run[1].pagesRead[2].anchors = <<Young1>>
  /\ seen = {1}

\* the count that stands first with one of the units in the text, else 0
CountOf(text, units) ==
  IF \E k \in 1..Len(text) : text[k].unit \in units
    THEN text[CHOOSE k \in 1..Len(text) :
                /\ text[k].unit \in units
                /\ \A m \in 1..(k - 1) : text[m].unit \notin units].n
    ELSE 0

\* 12 * y + m for the year count y and the month count m of the text
MonthsOf(text) == 12 * CountOf(text, {"jaar"}) + CountOf(text, {"maand", "maanden"})

\* the record has the months of the age text of the card it was made from
ParsedAs(cat, card) == cat.id = card.id => cat.ageInMonths = MonthsOf(card.age)

\* C30 (age parsing): the record made from a card has ageInMonths = 12*y + m
\* for the year count y and the month count m of the card's age text (0 for
\* a count that is missing), whether the text stands in the age-class
\* element or is found by the scan of the card's text.
C30_AgeParsing ==
  \A r \in Runs :
    /\ BetweenPages(r)
         => \A k \in 1..Len(run[r].allCats) :
              ParsedAs(run[r].allCats[k], FirstCard(r, run[r].allCats[k].id))
    /\ PagesRead(r)
         => \A k \in 1..Len(run[r].cats) :
              ParsedAs(run[r].cats[k], FirstCard(r, run[r].cats[k].id))

\* notifyTelegram has returned and the new records are still known
Notified(r) == ~run[r].trimmed /\ run[r].persisted # <<>>

ErrorResult(r) ==
  /\ run[r].pc = "done"
  /\ run[r].result.status = 500
  /\ DOMAIN run[r].result.body = {"error", "message"}
  /\ run[r].result.body.error = "Internal server error"

\* C27 (store errors are fatal and structured): an invocation whose
\* kv.sismember threw ends with the error result, has posted no message and
\* has written nothing to the store; an invocation whose kv.sadd or
\* kv.expire threw ends with the error result; neither answers ok = true.
C27_StoreErrorsFatal ==
  \A r \in Runs :
    /\ run[r].storeFailed = "sismember"
         => /\ ErrorResult(r) /\ ~Ok(r)
            /\ run[r].attempts = <<>> /\ run[r].delivered = {}
            /\ run[r].summary = "none"
            /\ run[r].persisted = <<>> /\ run[r].writes = <<>>
    /\ run[r].storeFailed \in {"sadd", "expire"}
         => ErrorResult(r) /\ ~Ok(r)

C27_Witness ==
  \E r \in Runs :
    /\ run[r].storeFailed = "sismember"
    /\ Len(run[r].probes) = 2
    /\ ErrorResult(r)
    /\ run[r].attempts = <<>> /\ run[r].writes = <<>>

\* no update is being processed
HookAtRest == hook.pc \in {"idle", "done"}

\* the answer to the /status of the chat has just been made
StatusAnswered(c) ==
  /\ hook.pc = "sendMessage"
  /\ hook.update.kind = "message" /\ hook.update.text = "/status"
  /\ hook.update.chat = c

\* C29 (subscription lifecycle): a chat whose last processed update among
\* /start, /stop, bot added and bot removed was a /stop or a removal is not
\* in the subscriber list, and a /status tells it that it is not subscribed;
\* a chat whose last such update was a /start or an addition is in the list
\* and is told that it is subscribed.
C29_SubscriptionLifecycle ==
  \A c \in Chats :
    /\ (HookAtRest /\ hook.last[c] = "removed") => ~IsSubscribed(c)
    /\ (HookAtRest /\ hook.last[c] = "added") => IsSubscribed(c)
    /\ (StatusAnswered(c) /\ hook.last[c] = "removed") => ~hook.reply.subscribed
    /\ (StatusAnswered(c) /\ hook.last[c] = "added") => hook.reply.subscribed

\* the ids of the chats in the subscriber set
SubscriberIds == {m.id : m \in chats}

\* the step posts the message for a record
PostsRecord(r) == Len(run'[r].dest) > Len(run[r].dest)

\* C28 (delivery to every subscriber): the message for a new record goes to
\* every chat of the subscriber set telegram:chat_ids, and to the configured
\* TELEGRAM_CHAT_ID only when that set is empty.
C28_DeliveryToEverySubscriber ==
  [][\A r \in Runs :
       PostsRecord(r)
         => {Last(run'[r].dest)}
              = (IF SubscriberIds = {} THEN {config.TELEGRAM_CHAT_ID}
                 ELSE SubscriberIds)]_vars

\* the name holds "(en Y)", "(& Y)" or "(&Y)": an opening parenthesis, "en"
\* or "&", a name Y, a closing parenthesis
Marker(name) ==
  \E k \in 1..Len(name) : \E m \in (k + 1)..Len(name) : \E e \in (m + 2)..Len(name) :
    /\ name[k] = "("
    /\ \A x \in (k + 1)..(m - 1) : name[x] = " "
    /\ name[m] \in {"&", "en"}
    /\ \A x \in (m + 1)..(e - 1) : name[x] # ")"
    /\ \E x \in (m + 1)..(e - 1) : name[x] # " "
    /\ name[e] = ")"

\* the name and the description match one of the keyword patterns
Keyword(card) ==
  LET text == card.name \o <<" ">> \o card.description
  IN  \/ \E p \in duoPatterns : HasPhrase(text, p)
      \/ relationshipPatterns(text)
      \/ ParenDuo(card.name)

\* C31 (grouped-adoption detection): with the duo filter on, a record of
\* sufficient age whose name holds the marker "(en Y)", "(& Y)" or "(&Y)" is
\* flagged and so not eligible, whatever its description; one whose name has
\* no marker and that matches no keyword pattern is not flagged and so is
\* eligible.
C31_GroupedAdoptionDetection ==
  \A r \in Runs :
    (PagesRead(r) /\ ~DuoFilterDisabled) =>
      \A id \in IdsRead(r) :
        LET card == FirstCard(r, id)
        IN  AgeEligible(r, id) =>
              /\ Marker(card.name) => id \notin run[r].eligibleIds
              /\ (~Marker(card.name) /\ ~Keyword(card)) => id \in run[r].eligibleIds

\* the place of a position of the handler in the order of its steps
StepRank(pc) ==
  CASE pc = "idle" -> 0
    [] pc \in {"fetch", "backoff", "sleepPage"} -> 1
    [] pc = "probe" -> 2
    [] pc \in {"send", "sendSleep", "summary"} -> 3
    [] pc = "sadd" -> 4
    [] pc = "expire" -> 5
    [] OTHER -> 6

\* what has happened by the time the invocation is at a step
StepsBefore(r) ==
  LET rec == run[r]
      rank == StepRank(rec.pc)
      allSent == Len(rec.attempts) = Min(Len(rec.newCats), MAX_CATS_TO_NOTIFY)
  IN  /\ rank <= 1 => rec.probes = <<>>
      /\ rank <= 2 => rec.attempts = <<>> /\ rec.summary = "none"
      /\ rank <= 4 => rec.writes = <<>>
      /\ rank = 3 => rec.checked /\ Len(rec.probes) = Len(rec.cats)
      /\ rank \in {4, 5} => rec.checked /\ allSent
      /\ rank = 5 => rec.writes = <<"sadd">>
      /\ rec.writes \in {<<>>, <<"sadd">>, <<"sadd", "expire">>}
      /\ rec.attempts # <<>> => rec.checked
      /\ rec.writes # <<>> => allSent

\* C32 (linear orchestration order): an invocation never goes back to an
\* earlier step or an earlier page; no message is posted before the last
\* membership probe, no store write is made before the last message, and
\* there is one kv.sadd at most.
C32_LinearOrder ==
  /\ [][\A r \in Runs :
          ~run'[r].trimmed
            => /\ StepRank(run'[r].pc) >= StepRank(run[r].pc)
               /\ run[r].pc \in {"fetch", "backoff", "sleepPage"}
                    /\ run'[r].pc \in {"fetch", "backoff", "sleepPage"}
                    => run'[r].page >= run[r].page
               /\ Len(run'[r].probes) > Len(run[r].probes)
                    => run[r].attempts = <<>> /\ run[r].writes = <<>>
               /\ Len(run'[r].attempts) > Len(run[r].attempts)
                    => /\ run[r].checked /\ run[r].writes = <<>>
                       /\ run'[r].probes = run[r].probes]_vars
  /\ [](\A r \in Runs : ~run[r].trimmed => StepsBefore(r))

C32_Witness ==
  \E r \in Runs :
    /\ Ok(r) /\ ~run[r].trimmed
    /\ run[r].totalPages >= 2
    /\ Len(run[r].probes) >= 2
    /\ Len(run[r].attempts) >= 2
    /\ run[r].writes = <<"sadd", "expire">>

\* the invocation has sent its response
Responded(r) == run[r].pc = "done" /\ run[r].result.status \in {200, 401, 500}

\* C33 (every run terminates with exactly one response): when every awaited
\* call returns or fails, an invocation that has started sends a response
\* with status 200, 401 or 500; once it has responded it takes no further
\* step and its response stays; fetchListing makes at most two attempts per
\* page.
C33_TerminatesWithOneResponse ==
  /\ (run[1].pc # "idle") ~> Responded(1)
  /\ [][run[1].pc = "done"
          => run'[1].pc = "done" /\ run'[1].result.status = run[1].result.status]_vars
  /\ [](run[1].pc = "done" => Responded(1))
  /\ [](run[1].tries <= 2 /\ run[1].retryCount \in {0, 1})

C33_Witness ==
  /\ Failed(1) /\ ~run[1].trimmed
  /\ run[1].tries = 2 /\ run[1].retryCount = 0
  /\ run[1].failedPage = 2

\* one of the three required environment variables is unset
Misconfigured ==
  \E k \in {"TELEGRAM_BOT_TOKEN", "TELEGRAM_CHAT_ID", "CRON_SECRET"} : config[k] = None

\* the invocation was answered at once, with no fetch, store call or message
AnsweredWithoutEffect(r) ==
  /\ run[r].pc = "done"
  /\ run[r].page = 0 /\ run[r].tries = 0
  /\ run[r].probes = <<>> /\ run[r].attempts = <<>> /\ run[r].summary = "none"
  /\ run[r].persisted = <<>> /\ run[r].writes = <<>>

MisconfiguredResult(r) ==
  /\ run[r].result.status = 500
  /\ run[r].result.body.error = "Server misconfigured"

EntriesOf(c) == {m \in chats : m.id = c}

\* C35 (unique subscribers): whatever updates the webhook has processed, the
\* set telegram:chat_ids holds at most one member per chat id, so getChatIds
\* returns no chat id twice.
C35_UniqueSubscribers ==
  \A c \in Chats : Cardinality(EntriesOf(c)) <= 1

\* the pages of the invocation are read and filtered
Filtered(r) == ~run[r].trimmed /\ run[r].extracted # "unknown"

\* C36 (warning exactly when nothing is eligible): once the pages are
\* filtered, an invocation with no eligible record, also one whose pages
\* held records, has answered with the "No cats found" warning, found = 0,
\* and has made no probe, post or store write; an invocation with an
\* eligible record never answers with the warning.
C36_WarningIffNothingEligible ==
  \A r \in Runs :
    Filtered(r) =>
      /\ run[r].eligibleIds = {}
           => /\ Ok(r)
              /\ run[r].result.body
                   = [ok |-> TRUE, found |-> 0, new |-> 0, warning |-> "No cats found"]
              /\ run[r].probes = <<>> /\ run[r].attempts = <<>>
              /\ run[r].summary = "none"
              /\ run[r].persisted = <<>> /\ run[r].writes = <<>>
      /\ (run[r].eligibleIds # {} /\ run[r].pc = "done")
           => "warning" \notin DOMAIN run[r].result.body

C36_Witness ==
  \E r \in Runs :
    /\ Filtered(r) /\ run[r].extracted = "some"
    /\ run[r].eligibleIds = {}
    /\ Ok(r) /\ run[r].result.body.warning = "No cats found"
    /\ run[r].probes = <<>>

\* no eligible id of the invocation was found new so far
NothingNew(r) == ~run[r].trimmed /\ run[r].newIds = {}

\* getNewCats of the invocation has returned the empty list
NothingNewAtAll(r) == NothingNew(r) /\ run[r].checked

\* C37 (a run with nothing new leaves the store alone): a step of an
\* invocation that has found no new eligible id leaves the members of the
\* set and the expiration of the key as they were, and such an invocation
\* has posted no message and has called neither kv.sadd nor kv.expire.
C37_NothingNewWritesNothing ==
  /\ [][\A r \in Runs :
          (run'[r] # run[r] /\ NothingNew(r)')
            => seen' = seen /\ ttl' = ttl]_vars
  /\ [](\A r \in Runs :
          NothingNew(r)
            => /\ run[r].attempts = <<>> /\ run[r].summary = "none"
               /\ run[r].persisted = <<>> /\ run[r].writes = <<>>
               /\ run[r].pc \notin {"send", "sendSleep", "summary", "sadd", "expire"})

C37_Witness ==
  \E r \in Runs :
    /\ NothingNewAtAll(r) /\ Ok(r)
    /\ run[r].eligibleIds # {}
    /\ run[r].eligibleIds \subseteq seen
    /\ ttl = TTL_SECONDS
    /\ run[r].writes = <<>>

\* getNewCats has returned every eligible record of the invocation as new
AllNew(r) ==
  /\ ~run[r].trimmed /\ run[r].checked
  /\ run[r].eligibleIds # {}
  /\ run[r].newIds = run[r].eligibleIds

\* C38 (expiry re-notifies): a kv.sismember that returns while the key is
\* gone reports its record as new, whatever was stored before; and an
\* invocation that found every eligible record new goes on to notifyTelegram
\* with all of them (a message for each of the first MAX_CATS_TO_NOTIFY, the
\* summary for the others), gives all their ids to persistCatIds, and, when
\* it answers OK, has written them and reports new = found.
C38_ExpiryRenotifies ==
  /\ [][\A r \in Runs :
          ( /\ run[r].pc = "probe" /\ seen = {}
            /\ run'[r] # run[r]
            /\ run'[r].pc # "crashed" /\ run'[r].storeFailed = "none" )
            => run[r].cats[run[r].i].id \in run'[r].newIds]_vars
  /\ [](\A r \in Runs :
          AllNew(r)
            => /\ run[r].pc \in {"send", "sendSleep", "summary", "sadd", "expire", "done"}
               /\ run[r].pc \in {"sadd", "expire", "done"}
                    => /\ run[r].attempts = IdsOf(catsToNotify(run[r].newCats))
                       /\ (run[r].summary # "none")
                            = (Len(run[r].newCats) > MAX_CATS_TO_NOTIFY)
                       /\ Range(run[r].persisted) = run[r].eligibleIds
               /\ Ok(r) => /\ run[r].writes = <<"sadd", "expire">>
                           /\ run[r].result.body.new = run[r].result.body.found
                           /\ run[r].result.body.new = Cardinality(run[r].eligibleIds)
               /\ Failed(r) => run[r].storeFailed \in {"sadd", "expire"})

C38_Witness ==
  /\ Ok(1) /\ run[1].eligibleIds # {} /\ run[1].newIds = run[1].eligibleIds
  /\ expired
  /\ AllNew(2) /\ Ok(2)
  /\ run[2].eligibleIds = run[1].eligibleIds
  /\ Cardinality(run[2].newIds) > MAX_CATS_TO_NOTIFY
  /\ run[2].eligibleIds \subseteq seen
  /\ ttl = TTL_SECONDS

\* the record extracted for the id is removed by the age or the duo filter
Ineligible(r, id) ==
  \/ ~AgeEligible(r, id)
  \/ ~DuoFilterDisabled /\ DetectedDuo(r, id)

\* C39 (ineligible records never reach the store): the id of a record that
\* the age or the duo filter removes is not given to kv.sismember, to
\* Telegram or to persistCatIds by that invocation; the store holds only ids
\* that were eligible in an invocation; and an id that was absent or
\* ineligible in the first invocation and is eligible in the second is
\* returned as new by getNewCats of the second.
C39_IneligibleNeverStored ==
  /\ \A r \in Runs :
       PagesRead(r) =>
         \A id \in IdsRead(r) :
           Ineligible(r, id)
             => /\ id \notin run[r].eligibleIds
                /\ id \notin Range(run[r].probes)
                /\ id \notin Range(run[r].attempts)
                /\ id \notin Range(run[r].persisted)
  /\ \A id \in seen :
       \E r \in Runs : PagesRead(r) /\ id \in IdsRead(r) /\ ~Ineligible(r, id)
  /\ (PagesRead(1) /\ PagesRead(2) /\ run[2].checked)
       => \A id \in IdsRead(2) :
            (~Ineligible(2, id) /\ (id \in IdsRead(1) => Ineligible(1, id)))
              => id \in run[2].newIds

C39_Witness ==
  /\ PagesRead(1) /\ Ok(1) /\ ~DuoFilterDisabled
  /\ IdsRead(1) = {1, 2}
  /\ FirstCard(1, 1) = Young1 /\ Ineligible(1, 1)
  /\ run[1].newIds = {2}
  /\ ~expired
  /\ PagesRead(2) /\ Ok(2)
  /\ IdsRead(2) = {1, 2}
  /\ FirstCard(2, 1) = Single(1) /\ FirstCard(2, 2) = Single(2)
  /\ run[2].newIds = {1}
  /\ seen = {1, 2}

====
